---- MODULE Spec2Model ----
(***************************************************************************)
(* The Ollama adapter of next-js-ai-lite: the incremental response decoder *)
(* (transformOllamaStream), the accumulating decoder                       *)
(* (accumulateOllamaResponse and the identical inline read loops), the     *)
(* conversation exchange (continueConversation, continueTextConversation)  *)
(* and the availability check.                                             *)
(*                                                                         *)
(* Bytes and characters are numbers: a byte is its value, a character its  *)
(* code point.  Text is a sequence of code points.  The wire alphabet is   *)
(* LF, SPACE, and the UTF-8 pair C2 A0 (U+00A0, NO-BREAK SPACE), plus two  *)
(* tokens of one byte each that abbreviate the fixed parts of a record:    *)
(* 123 stands for the record prefix  {"response":"  and 125 for the suffix *)
(* "} , so that  123 p 125  is the record whose response field is p.       *)
(***************************************************************************)
EXTENDS Integers, Sequences, FiniteSets, TLC

\* ---------------------------------------------------------------- bounds
MaxBytes == 5      \* total bytes a decode session receives
MaxBufs == 2       \* buffers a decode session receives
ExchBytes == 3     \* total bytes the body of one exchange carries
MaxHistory == 2    \* messages of the input history of one exchange

\* -------------------------------------------------------------- alphabet
LF == 10
SP == 32
OPEN == 123
CLOSE == 125
LEAD == 194
CONT == 160
NBSP == 160
REPLACEMENT == 65533

Bytes == {LF, SP, OPEN, CLOSE, LEAD, CONT}

\* ------------------------------------------------------------ sequences
RECURSIVE Flatten(_)
Flatten(ss) == IF ss = <<>> THEN <<>> ELSE Head(ss) \o Flatten(Tail(ss))

Front(s) == SubSeq(s, 1, Len(s) - 1)

Last(s) == s[Len(s)]

BytesUpTo(n) == UNION {[1..k -> Bytes] : k \in 1..n}

\* ------------------------------------------- TextDecoder (UTF-8, streaming)
\* One byte through the UTF-8 decoder: `lead` is the pending lead byte of a
\* two-byte sequence (0 when none), the result is the new pending byte and
\* the characters put out.
Utf8Byte(lead, b) ==
    IF lead = 0
    THEN IF b < 128 THEN [lead |-> 0, out |-> <<b>>]
         ELSE IF b >= 194 /\ b <= 223 THEN [lead |-> b, out |-> <<>>]
         ELSE [lead |-> 0, out |-> <<REPLACEMENT>>]
    ELSE IF b >= 128 /\ b <= 191
         THEN [lead |-> 0, out |-> <<(lead - 192) * 64 + (b - 128)>>]
         ELSE IF b < 128 THEN [lead |-> 0, out |-> <<REPLACEMENT, b>>]
         ELSE IF b >= 194 /\ b <= 223 THEN [lead |-> b, out |-> <<REPLACEMENT>>]
         ELSE [lead |-> 0, out |-> <<REPLACEMENT, REPLACEMENT>>]

\* decoder.decode(chunk, { stream: true }): the pending lead byte is kept in
\* the decoder object for the next call, not put out.
RECURSIVE Decode(_, _)
Decode(lead, bytes) ==
    IF bytes = <<>> THEN [lead |-> lead, text |-> <<>>]
    ELSE LET one == Utf8Byte(lead, Head(bytes))
             rest == Decode(one.lead, Tail(bytes))
         IN [lead |-> rest.lead, text |-> one.out \o rest.text]

\* -------------------------------------------------------- String methods
\* String.prototype.split("\n")
RECURSIVE Split(_)
Split(text) ==
    IF \A i \in 1..Len(text) : text[i] # LF THEN <<text>>
    ELSE LET i == CHOOSE k \in 1..Len(text) :
                      text[k] = LF /\ \A j \in 1..(k - 1) : text[j] # LF
         IN <<SubSeq(text, 1, i - 1)>> \o Split(SubSeq(text, i + 1, Len(text)))

\* The characters String.prototype.trim strips (WhiteSpace and LineTerminator).
JsWhiteSpace == {LF, SP, NBSP}

RECURSIVE Trim(_)
Trim(s) ==
    IF s = <<>> THEN s
    ELSE IF Head(s) \in JsWhiteSpace THEN Trim(Tail(s))
    ELSE IF Last(s) \in JsWhiteSpace THEN Trim(Front(s))
    ELSE s

\* -------------------------------------------------------------- JSON.parse
\* The white space JSON.parse allows around a value.
JsonWhiteSpace == {LF, SP}

RECURSIVE JsonStrip(_)
JsonStrip(s) ==
    IF s = <<>> THEN s
    ELSE IF Head(s) \in JsonWhiteSpace THEN JsonStrip(Tail(s))
    ELSE IF Last(s) \in JsonWhiteSpace THEN JsonStrip(Front(s))
    ELSE s

\* JSON.parse(line) followed by the read of .response: ok is FALSE when
\* JSON.parse throws.
JsonParse(line) ==
    LET s == JsonStrip(line)
    IN IF /\ Len(s) >= 2
          /\ s[1] = OPEN
          /\ s[Len(s)] = CLOSE
          /\ \A i \in 2..(Len(s) - 1) : s[i] \notin {OPEN, CLOSE, LF}
       THEN [ok |-> TRUE, response |-> SubSeq(s, 2, Len(s) - 1)]
       ELSE [ok |-> FALSE, response |-> <<>>]

\* The loop over the lines of one buffer: a line that trims to the empty
\* string is skipped, any other is handed to JSON.parse; a line that parses
\* gives its response, a line that throws is logged by console.error.
RECURSIVE ParseLines(_)
ParseLines(lines) ==
    IF lines = <<>> THEN [frags |-> <<>>, errs |-> <<>>, seen |-> <<>>]
    ELSE LET line == Head(lines)
             rest == ParseLines(Tail(lines))
             obj == JsonParse(line)
         IN IF Trim(line) = <<>> THEN rest
            ELSE IF obj.ok
                 THEN [frags |-> <<obj.response>> \o rest.frags,
                       errs |-> rest.errs,
                       seen |-> <<line>> \o rest.seen]
                 ELSE [frags |-> rest.frags,
                       errs |-> <<line>> \o rest.errs,
                       seen |-> <<line>> \o rest.seen]

\* ------------------------------------------------------------------ state
VARIABLES
    op,              \* the function this session runs
    variant,         \* "stream": the body is read as a stream; "single": response.json()
    pc,              \* where the function is
    reachable,       \* whether the endpoint answers
    body,            \* response.body: "none" before the response, "null" or "stream" after
    bufs,            \* the buffers reader.read() has delivered, in arrival order
    buffer,          \* this.buffer of the TransformStream
    emitted,         \* the fragments given to controller.enqueue, in order
    lead,            \* the pending lead byte of the read loop's TextDecoder
    decoded,         \* the text the calls of decode have returned, in order
    aggregatedText,  \* aggregatedText of the read loop
    parsed,          \* the lines handed to JSON.parse, in order
    errors,          \* the lines logged by console.error, in order
    history,         \* the history the exchange was called with
    returned,        \* the string a function returned
    messages,        \* the messages continueConversation returned
    requests,        \* the number of calls of fetch
    availability     \* what checkAIAvailability returned last

vars == <<op, variant, pc, reachable, body, bufs, buffer, emitted, lead,
          decoded, aggregatedText, parsed, errors, history, returned, messages,
          requests, availability>>

DecoderOps == {"transformOllamaStream", "accumulateOllamaResponse"}
ExchangeOps == {"continueConversation", "continueTextConversation"}
ReadLoopOps == {"accumulateOllamaResponse", "continueConversation",
                "continueTextConversation"}

\* The bytes one session receives at most.
ByteLimit == IF op \in DecoderOps THEN MaxBytes ELSE ExchBytes

Received == Flatten(bufs)

\* The buffers reader.read() may deliver next: never empty, and within the
\* bytes the session may still receive.
Chunks == BytesUpTo(ByteLimit - Len(Received))

\* ---------------------------------------------------------------- messages
NoDisplay == [kind |-> "absent", text |-> <<>>]
TextDisplay(t) == [kind |-> "text", text |-> t]
NodeDisplay == [kind |-> "node", text |-> <<>>]
PlainDisplay == [kind |-> "object", text |-> <<>>]

Message(r, c, d) == [role |-> r, content |-> c, display |-> d]

InputMessages ==
    {Message("user", <<SP>>, NoDisplay),
     Message("assistant", <<NBSP>>, NodeDisplay)}

Histories == UNION {[1..k -> InputMessages] : k \in 0..MaxHistory}

\* JSON.parse(JSON.stringify(value)) of a display value: a string stays the
\* string, an absent field stays absent, a React element comes back as a
\* plain object without its symbols and functions.
SerializeDisplay(d) == IF d.kind = "node" THEN PlainDisplay ELSE d

\* JSON.parse(JSON.stringify({ messages })).
Serialize(ms) ==
    [i \in 1..Len(ms) |->
        Message(ms[i].role, ms[i].content, SerializeDisplay(ms[i].display))]

\* ------------------------------------------------------------------- Init
Blank ==
    /\ bufs = <<>>
    /\ buffer = <<>>
    /\ emitted = <<>>
    /\ lead = 0
    /\ decoded = <<>>
    /\ aggregatedText = <<>>
    /\ parsed = <<>>
    /\ errors = <<>>
    /\ returned = <<>>
    /\ messages = <<>>
    /\ requests = 0
    /\ availability = "unknown"

\* A decode session: the decoder is handed the body of a response.
Init ==
    /\ Blank
    /\ op \in DecoderOps
    /\ variant = "stream"
    /\ pc = "reading"
    /\ reachable = TRUE
    /\ body = "stream"
    /\ history = <<>>

\* ------------------------------------------------- transformOllamaStream
\* A transform that splits the text of the chunk alone: the retained tail is
\* overwritten, never joined to the text that follows it.
TransformStepWithoutTail(buf, chunk) ==
    LET text == Decode(0, chunk).text
        lines == Split(text)
        p == ParseLines(Front(lines))
    IN [buffer |-> Last(lines), text |-> text,
        frags |-> p.frags, seen |-> p.seen, errs |-> p.errs]

\* transform(chunk, controller): a new TextDecoder decodes the chunk, the
\* text is appended to this.buffer, the buffer is split, its last piece is
\* kept and the pieces before it go through the loop over the lines.
TransformStep(buf, chunk) ==
    LET text == Decode(0, chunk).text
        lines == Split(buf \o text)
        p == ParseLines(Front(lines))
    IN [buffer |-> Last(lines), text |-> text,
        frags |-> p.frags, seen |-> p.seen, errs |-> p.errs]

Transform ==
    /\ op = "transformOllamaStream"
    /\ pc = "reading"
    /\ Len(bufs) < MaxBufs
    /\ \E chunk \in Chunks :
          LET t == TransformStep(buffer, chunk)
          IN /\ bufs' = Append(bufs, chunk)
             /\ decoded' = decoded \o t.text
             /\ buffer' = t.buffer
             /\ emitted' = emitted \o t.frags
             /\ parsed' = parsed \o t.seen
             /\ errors' = errors \o t.errs
    /\ UNCHANGED <<op, variant, pc, reachable, body, lead, aggregatedText,
                   history, returned, messages, requests, availability>>

\* flush(controller): this.buffer goes through the same test and parse.
FlushStep(buf) == ParseLines(<<buf>>)

Flush ==
    /\ op = "transformOllamaStream"
    /\ pc = "reading"
    /\ LET f == FlushStep(buffer)
       IN /\ emitted' = emitted \o f.frags
          /\ parsed' = parsed \o f.seen
          /\ errors' = errors \o f.errs
    /\ pc' = "closed"
    /\ UNCHANGED <<op, variant, reachable, body, bufs, buffer, lead, decoded,
                   aggregatedText, history, returned, messages, requests,
                   availability>>

\* One session of transformOllamaStream alone.
InitTransform == Init /\ op = "transformOllamaStream"

NextTransform == Transform \/ Flush

SpecTransform == InitTransform /\ [][NextTransform]_vars

\* ---------------------------------------------- accumulateOllamaResponse
\* One turn of the read loop with done = false: the loop's one TextDecoder
\* decodes the value, the text is split, and every piece goes through the
\* loop over the lines.
ReadStep(ld, value) ==
    LET chunk == Decode(ld, value)
        p == ParseLines(Split(chunk.text))
    IN [lead |-> chunk.lead, text |-> chunk.text,
        frags |-> p.frags, seen |-> p.seen, errs |-> p.errs]

Read ==
    /\ op \in ReadLoopOps
    /\ pc = "reading"
    /\ Len(bufs) < MaxBufs
    /\ \E value \in Chunks :
          LET r == ReadStep(lead, value)
          IN /\ bufs' = Append(bufs, value)
             /\ lead' = r.lead
             /\ decoded' = decoded \o r.text
             /\ aggregatedText' = aggregatedText \o Flatten(r.frags)
             /\ parsed' = parsed \o r.seen
             /\ errors' = errors \o r.errs
    /\ UNCHANGED <<op, variant, pc, reachable, body, buffer, emitted, history,
                   returned, messages, requests, availability>>

\* The string the read loop returns for the buffers bs, the decoder having
\* the pending lead byte ld.
RECURSIVE AccumulateFrom(_, _)
AccumulateFrom(ld, bs) ==
    IF bs = <<>> THEN <<>>
    ELSE LET r == ReadStep(ld, Head(bs))
         IN Flatten(r.frags) \o AccumulateFrom(r.lead, Tail(bs))

AccumulateOllamaResponse(bs) == AccumulateFrom(0, bs)

\* The appended message carrying the handle of the stream, not its text.
NewMessageOfHandle(text) == Message("assistant", <<>>, PlainDisplay)

\* The message continueConversation appends.
NewMessage(text) == Message("assistant", text, TextDisplay(text))

\* A read loop without its exit: the turn with done = true changes nothing
\* and the loop goes on.
ReadDoneIgnored ==
    /\ op \in ReadLoopOps
    /\ pc = "reading"
    /\ UNCHANGED vars

\* The turn of the read loop with done = true, and the return that follows.
ReadDone ==
    /\ op \in ReadLoopOps
    /\ pc = "reading"
    /\ pc' = "returned"
    /\ IF op = "continueConversation"
       THEN /\ messages' = Serialize(Append(history, NewMessage(aggregatedText)))
            /\ UNCHANGED returned
       ELSE /\ returned' = aggregatedText
            /\ UNCHANGED messages
    /\ UNCHANGED <<op, variant, reachable, body, bufs, buffer, emitted, lead,
                   decoded, aggregatedText, parsed, errors, history, requests,
                   availability>>

Next == Transform \/ Flush \/ Read \/ ReadDone

Spec == Init /\ [][Next]_vars

\* ------------------------------------------------------------ the exchange
\* A call of continueConversation or continueTextConversation.  Variant
\* "single" is the continueConversation that awaits response.json().
InitExchange ==
    /\ Blank
    /\ op \in ExchangeOps
    /\ variant \in IF op = "continueConversation"
                   THEN {"stream", "single"} ELSE {"stream"}
    /\ pc = "start"
    /\ reachable \in BOOLEAN
    /\ body = "none"
    /\ history \in Histories

\* await fetch(...): rejects when the endpoint does not answer; the response
\* of an endpoint that answers has a body or none.
Fetch ==
    /\ pc = "start"
    /\ requests' = requests + 1
    /\ IF reachable
       THEN /\ pc' = "fetched"
            /\ body' \in {"null", "stream"}
       ELSE /\ pc' = "thrown"
            /\ UNCHANGED body
    /\ UNCHANGED <<op, variant, reachable, bufs, buffer, emitted, lead,
                   decoded, aggregatedText, parsed, errors, history, returned,
                   messages, availability>>

\* The test of the body left out: the read loop is entered on any response.
BodyCheckSkipped(b) == "reading"

\* if (!response.body) throw new Error(...)
BodyCheck(b) == IF b = "null" THEN "thrown" ELSE "reading"

CheckBody ==
    /\ pc = "fetched"
    /\ variant = "stream"
    /\ pc' = BodyCheck(body)
    /\ UNCHANGED <<op, variant, reachable, body, bufs, buffer, emitted, lead,
                   decoded, aggregatedText, parsed, errors, history, returned,
                   messages, requests, availability>>

\* The text response.json() parses: the whole body decoded at once, an
\* unfinished sequence at its end giving U+FFFD.
DecodeAll(bytes) ==
    LET d == Decode(0, bytes)
    IN IF d.lead = 0 THEN d.text ELSE d.text \o <<REPLACEMENT>>

\* const data = await response.json(), and the return that follows: the
\* display is the serialized handle of the UI stream, not the text.
ResponseJson ==
    /\ pc = "fetched"
    /\ variant = "single"
    /\ IF body = "null"
       THEN /\ pc' = "thrown"
            /\ UNCHANGED <<bufs, messages>>
       ELSE \E value \in {<<>>} \cup BytesUpTo(ExchBytes) :
               LET data == JsonParse(DecodeAll(value))
               IN /\ bufs' = <<value>>
                  /\ IF data.ok
                     THEN /\ pc' = "returned"
                          /\ messages' = Append(history,
                                Message("assistant", data.response, PlainDisplay))
                     ELSE /\ pc' = "thrown"
                          /\ UNCHANGED messages
    /\ UNCHANGED <<op, variant, reachable, body, buffer, emitted, lead,
                   decoded, aggregatedText, parsed, errors, history, returned,
                   requests, availability>>

\* --------------------------------------------------- checkAIAvailability
\* An availability check that probes the endpoint.
AvailableIfReachable(up) == IF up THEN "true" ELSE "false"

\* return true
Available(up) == "true"

CheckAIAvailability ==
    /\ availability' = Available(reachable)
    /\ UNCHANGED <<op, variant, pc, reachable, body, bufs, buffer, emitted,
                   lead, decoded, aggregatedText, parsed, errors, history,
                   returned, messages, requests>>

NextExchange ==
    \/ Fetch
    \/ CheckBody
    \/ Read
    \/ ReadDone
    \/ ResponseJson
    \/ CheckAIAvailability

SpecExchange == InitExchange /\ [][NextExchange]_vars

\* One exchange on its own, run by the event loop: a continuation whose
\* awaited promise has settled is run, the request settles, and the
\* transport ends the stream.
NextTermination ==
    \/ Fetch
    \/ CheckBody
    \/ Read
    \/ ReadDone
    \/ ResponseJson

SpecTermination ==
    /\ InitExchange
    /\ [][NextTermination]_vars
    /\ WF_vars(Fetch)
    /\ WF_vars(CheckBody)
    /\ WF_vars(ResponseJson)
    /\ WF_vars(ReadDone)

\* ================================================================ claims
\* What the claims compare the decoders with: the bytes received decoded in
\* one pass, split on the newline, each non-blank line parsed.
WholeText == Decode(0, Received).text

StreamLines == Split(WholeText)

Expected == ParseLines(StreamLines).frags

\* The bytes received are valid UTF-8: no unfinished sequence at their end
\* and no byte that decodes to U+FFFD.
WellEncoded ==
    /\ Decode(0, Received).lead = 0
    /\ \A i \in 1..Len(WholeText) : WholeText[i] # REPLACEMENT

Malformed(line) == Trim(line) # <<>> /\ ~JsonParse(line).ok

IsSuffix(t, s) ==
    Len(t) <= Len(s) /\ SubSeq(s, Len(s) - Len(t) + 1, Len(s)) = t

TransformClosed ==
    op = "transformOllamaStream" /\ pc = "closed" /\ WellEncoded

AccumulateReturned ==
    op = "accumulateOllamaResponse" /\ pc = "returned" /\ WellEncoded

\* C1: when the stream (valid UTF-8) has closed, the fragments transformOllamaStream has
\* emitted are exactly the response fields of the well-formed lines of the
\* bytes received, in order, wherever the buffer boundaries fell.
C1_EmitsExactlyTheResponses == TransformClosed => emitted = Expected

\* C2: the string the read loop returns is the concatenation of the response
\* fields of the well-formed lines of the bytes received, however the bytes
\* were split into buffers.
C2_IndependentOfChunking == AccumulateReturned => returned = Flatten(Expected)

\* The lines of the stream after its first malformed line.
AfterFirstMalformed ==
    LET m == CHOOSE i \in 1..Len(StreamLines) :
                 /\ Malformed(StreamLines[i])
                 /\ \A j \in 1..(i - 1) : ~Malformed(StreamLines[j])
    IN SubSeq(StreamLines, m + 1, Len(StreamLines))

\* C3: when the stream holds a malformed line, the session still ends
\* without a fault, and the output ends with the response fields of the
\* well-formed lines that follow the malformed line, unchanged and in order.
C3_MalformedLineIsLocal ==
    (\E i \in 1..Len(StreamLines) : Malformed(StreamLines[i])) =>
        /\ pc # "thrown"
        /\ TransformClosed =>
              IsSuffix(ParseLines(AfterFirstMalformed).frags, emitted)
        /\ AccumulateReturned =>
              IsSuffix(Flatten(ParseLines(AfterFirstMalformed).frags), returned)

\* C4: when the stream (valid UTF-8) has ended, a non-blank trailing line
\* without a newline has cost one call of JSON.parse on top of those for
\* the complete lines, and its response field, if it parses, ends the
\* output; a blank trailing remainder has cost no call of JSON.parse and no
\* logged error.
C4_TrailingLineParsedOnce ==
    (TransformClosed \/ AccumulateReturned) =>
        LET trailing == Last(StreamLines)
            before == ParseLines(Front(StreamLines))
        IN IF Trim(trailing) = <<>>
           THEN Len(parsed) = Len(before.seen) /\ Len(errors) = Len(before.errs)
           ELSE /\ Len(parsed) = Len(before.seen) + 1
                /\ JsonParse(trailing).ok =>
                      IF op = "transformOllamaStream"
                      THEN emitted # <<>> /\ Last(emitted) = JsonParse(trailing).response
                      ELSE IsSuffix(JsonParse(trailing).response, returned)

\* C5: the text the calls of decode have returned is the text of the bytes
\* received decoded as one buffer, also when a buffer ends inside a
\* two-byte character.
C5_DecodingIsStateful == WellEncoded => decoded = WholeText

\* C8: when the stream has closed, the fragments transformOllamaStream has
\* emitted, concatenated in order, are the string accumulateOllamaResponse
\* returns for the same buffers.
C8_ModesAgree ==
    TransformClosed => Flatten(emitted) = AccumulateOllamaResponse(bufs)

\* C9: a stream (valid UTF-8) whose lines are all blank gives no fragment,
\* hands nothing to JSON.parse and logs nothing.
C9_BlankLinesIgnored ==
    (WellEncoded /\ \A i \in 1..Len(StreamLines) : Trim(StreamLines[i]) = <<>>) =>
        /\ parsed = <<>>
        /\ errors = <<>>
        /\ emitted = <<>>
        /\ aggregatedText = <<>>

\* C6: once the response has come without a body, the exchange can only be
\* about to test the body or have thrown: it has read no buffer, parsed
\* nothing, and returned neither a string nor a history.
C6_NoBodyIsFatal ==
    body = "null" =>
        /\ pc \in {"fetched", "thrown"}
        /\ bufs = <<>>
        /\ parsed = <<>>
        /\ returned = <<>>
        /\ messages = <<>>

C6_Witness == body = "null" /\ pc = "thrown" /\ history # <<>>

C10_AlwaysAvailable ==
    [][availability' # availability =>
          availability' = "true" /\ requests' = requests]_vars

C10_Witness == availability = "true" /\ ~reachable /\ requests = 0

\* C11: while transformOllamaStream is reading, this.buffer holds no newline
\* and is exactly the text decoded so far that follows the last newline
\* decoded (all of it when there was none, the empty string when it ends
\* with a newline); the lines handed to JSON.parse are the non-blank lines
\* before that newline, each once, so no character is both retained and
\* already consumed.
C11_BufferIsTheUnterminatedTail ==
    (op = "transformOllamaStream" /\ pc = "reading") =>
        /\ \A i \in 1..Len(buffer) : buffer[i] # LF
        /\ buffer = Last(Split(decoded))
        /\ parsed = ParseLines(Front(Split(decoded))).seen

\* A second buffer has arrived, a newline has been decoded, and the retained
\* tail is longer than what the last buffer brought after its last newline:
\* it began in the buffer before.
C11_Witness ==
    /\ op = "transformOllamaStream"
    /\ pc = "reading"
    /\ Len(bufs) = 2
    /\ \E i \in 1..Len(decoded) : decoded[i] = LF
    /\ Len(buffer) > Len(Last(Split(Decode(0, bufs[2]).text)))

Terminated == pc \in {"returned", "thrown"}

\* C12: an exchange only ever waits for the response or for the next buffer,
\* its read loop takes the buffers in arrival order, and once the request
\* settles and the transport ends the stream the exchange returns or throws.
C12_ExchangeTerminates ==
    /\ [](pc \in {"start", "fetched", "reading", "returned", "thrown"})
    /\ [](decoded = IF variant = "stream" THEN WholeText ELSE <<>>)
    /\ <>Terminated

\* An exchange has returned after its read loop took every buffer the bound
\* allows.
C12_Witness ==
    /\ op = "continueConversation"
    /\ variant = "stream"
    /\ pc = "returned"
    /\ Len(bufs) = MaxBufs

\* C13: when the stream (valid UTF-8) has ended, console.error has logged
\* as many errors as the stream has malformed non-blank lines, one for each
\* and none for a well-formed or a blank line, however the bytes were split
\* into buffers.
C13_LogIsExact ==
    (TransformClosed \/ AccumulateReturned) =>
        Len(errors) = Len(ParseLines(StreamLines).errs)
====
